---- MODULE Spec2Model ----
(***************************************************************************)
(* TopologyLayer of TOGL: one forward pass of the topological aggregation  *)
(* layer over a packed batch of graphs.  Two copies of the layer exist:    *)
(* src/topognn/topolayer.py (variant "topolayer") and                      *)
(* src/topognn/models.py (variant "models").                               *)
(*                                                                         *)
(* Vertices are numbered 0..N-1 as in the code.  A tensor of E rows is a   *)
(* sequence of length E, so row i of the code is element i+1 here.  Slice  *)
(* offsets keep the code's values (0-based counts).                        *)
(***************************************************************************)
EXTENDS Integers, Sequences, FiniteSets, Bags, TLC

\* ---------------------------------------------------------------- bounds
MaxGraphs == 2
MaxNodes == 2
MaxEdges == 2
MaxSize == 4
MaxX == 1
NumFiltrations == 2
NumCoordFuns == 1
MaxSymNodes == 3
MaxFeaturesOut == 2
NumWorkers == 2

\* edge_index is a tensor of shape [2, E]: edge_index.shape[0]
EdgeIndexRows == 2

\* x has one column: the layer is built with features_in = 1
FeaturesIn == 1

VARIABLES
    variant,            \* which copy of TopologyLayer: "topolayer" | "models"
    dim1,               \* self.dim1
    pc,                 \* position of the forward pass
    has_batch,          \* forward called with a batch object (batch is not None)
    nverts,             \* vertex count of every graph of the call
    in_edges,           \* edge_index of the call, as <<source, destination>> rows
    in_slices,          \* batch.__slices__["edge_index"] of the call
    x,                  \* node features of the call, one number per vertex
    filt,               \* filtered_v_: filt[c][v], output of the filtration modules
    batch_edges,        \* batch.edge_index as compute_persistence reads it
    batch_slices,       \* batch.__slices__["edge_index"] after the forward's first lines
    fwd_edge_slices,    \* the edge slices forward hands to collapse_dim1
    filtered_e,         \* filtered_e_: filtered_e[c][e]
    engine_in,          \* what compute_persistence handed to the persistence engine
    pers,               \* the engine's output
    coord_activations,  \* per-vertex dim0 coordinate features fed to self.out
    graph_activations1, \* per-graph aggregated dim1 features, or None
    err,                \* the exception that ended the pass, "" if none
    cfg,                \* the other constructor arguments kept on self
    fake_in,            \* what compute_persistence handed to the fake substitute
    out_activations,    \* the output embedding of forward, or None
    mt                  \* the engine's workers, tasks and output buffers

vars == <<variant, dim1, pc, has_batch, nverts, in_edges, in_slices, x, filt,
          batch_edges, batch_slices, fwd_edge_slices, filtered_e, engine_in,
          pers, coord_activations, graph_activations1, err, cfg, fake_in,
          out_activations, mt>>

\* ------------------------------------------------------- tensor helpers
Max(a, b) == IF a >= b THEN a ELSE b
Min(a, b) == IF a <= b THEN a ELSE b

RECURSIVE SumSeq(_)
SumSeq(s) == IF s = <<>> THEN 0 ELSE s[1] + SumSeq(Tail(s))

\* torch.cumsum(s, 0)
Cumsum(s) == [i \in 1..Len(s) |-> SumSeq(SubSeq(s, 1, i))]

\* t[mask]: the rows of t whose mask entry is true, in order
RECURSIVE MaskSelect(_, _)
MaskSelect(t, mask) ==
    IF t = <<>> THEN <<>>
    ELSE (IF mask[1] THEN <<t[1]>> ELSE <<>>)
         \o MaskSelect(Tail(t), Tail(mask))

\* t[s:e]: out-of-range ends are clamped and an inverted range is empty
PySlice(t, s, e) ==
    LET lo == Min(Max(s, 0), Len(t))
        hi == Min(Max(e, 0), Len(t))
    IN  IF hi <= lo THEN <<>> ELSE SubSeq(t, lo + 1, hi)

\* torch.repeat_interleave(torch.arange(n), counts)
RECURSIVE RepeatInterleave(_, _)
RepeatInterleave(g, counts) ==
    IF counts = <<>> THEN <<>>
    ELSE [i \in 1..counts[1] |-> g] \o RepeatInterleave(g + 1, Tail(counts))

\* torch_scatter.scatter(src, index, reduce="sum") without dim_size: the
\* output has max(index)+1 rows, none when index is empty
ScatterSum(src, index) ==
    LET size == IF index = <<>> THEN 0
                ELSE 1 + CHOOSE m \in {index[i] : i \in 1..Len(index)} :
                             \A i \in 1..Len(index) : index[i] <= m
    IN  [j \in 1..size |->
            SumSeq(MaskSelect(src, [i \in 1..Len(src) |-> index[i] = j - 1]))]

\* vertex slices of a batch: batch.__slices__['x']
VertexSlices(nv) == <<0>> \o Cumsum(nv)

\* --------------------------------------------- remove_duplicate_edges
\* a strict comparison instead of <=
CorrectIdxStrict(edges) == [i \in 1..Len(edges) |-> edges[i][1] < edges[i][2]]

\* correct_idx = batch.edge_index[0] <= batch.edge_index[1]
CorrectIdx(edges) == [i \in 1..Len(edges) |-> edges[i][1] <= edges[i][2]]

RemoveDuplicateEdges(edges, slices) ==
    LET edge_diff_slices == [g \in 1..(Len(slices) - 1) |-> slices[g + 1] - slices[g]]
        batch_e == RepeatInterleave(0, edge_diff_slices)
        correct_idx == CorrectIdx(edges)
        n_edges == ScatterSum([i \in 1..Len(edges) |-> IF correct_idx[i] THEN 1 ELSE 0],
                              batch_e)
    IN  [edge_index |-> MaskSelect(edges, correct_idx),
         slices |-> Cumsum(<<0>> \o n_edges)]

\* --------------------------------------------------- filtration modules
\* One module per channel maps the node features to a filtration value.  The
\* learnable parameters are fixed here: odd channels return the feature,
\* even channels return MaxX minus the feature, so that the channels order
\* the vertices differently.
FiltrationModule(c, xv) == IF c % 2 = 1 THEN xv ELSE MaxX - xv

\* filtered_v_ = cat([filtration_mod.forward(x) for ...], 1)
FilteredV(xs) ==
    [c \in 1..NumFiltrations |-> [v \in DOMAIN xs |-> FiltrationModule(c, xs[v])]]

\* ------------------------------------------------------ edge filtration
\* t[index] with an index tensor over n rows: an index in -n..n-1 is
\* accepted and a negative one counts from the end; any other raises
IndexAccepted(i, n) == -n <= i /\ i < n
TorchIndex(i, n) == IF i < 0 THEN i + n ELSE i
AllIndexAccepted(edges, n) ==
    \A e \in 1..Len(edges) : IndexAccepted(edges[e][1], n) /\ IndexAccepted(edges[e][2], n)
\* every endpoint is a vertex 0..n-1
AllEndpointsValid(edges, n) ==
    \A e \in 1..Len(edges) : edges[e][1] \in 0..(n - 1) /\ edges[e][2] \in 0..(n - 1)

\* the source endpoint's value instead of the maximum of the two
EdgeFiltrationSource(fv, edges) ==
    [c \in 1..NumFiltrations |->
        [e \in 1..Len(edges) |->
            fv[c][TorchIndex(edges[e][1], Cardinality(DOMAIN fv[c]))]]]

\* filtered_e_ = max(filtered_v_[edge_index[0]], filtered_v_[edge_index[1]])
EdgeFiltration(fv, edges) ==
    [c \in 1..NumFiltrations |->
        [e \in 1..Len(edges) |->
            LET n == Cardinality(DOMAIN fv[c])
            IN  Max(fv[c][TorchIndex(edges[e][1], n)], fv[c][TorchIndex(edges[e][2], n)])]]

\* -------------------------------------------- batched persistence engine
\* compute_persistence_homology_batched_mt (torch_persistent_homology): per
\* graph and per filtration channel, edges sorted ascending by filtration
\* value (ties by original edge index), union-find over the graph's vertices.

ZeroPair == <<0, 0>>

\* the rows of one graph's edge range, ascending by (key, row)
RECURSIVE SortRows(_, _)
SortRows(rows, key) ==
    IF rows = {} THEN <<>>
    ELSE LET m == CHOOSE e \in rows :
                      \A e2 \in rows :
                          key[e] < key[e2] \/ (key[e] = key[e2] /\ e <= e2)
         IN  <<m>> \o SortRows(rows \ {m}, key)

\* union-find over the sorted edges; st.root maps a vertex to the root of
\* its component, st.dead are the roots that died in a merge, st.cyc the
\* edges whose endpoints were already connected
RECURSIVE UnionFind(_, _, _, _, _)
UnionFind(order, edges, fvc, fec, st) ==
    IF order = <<>> THEN st
    ELSE LET e == order[1]
             ru == st.root[edges[e][1]]
             rv == st.root[edges[e][2]]
             dying == IF fvc[rv] < fvc[ru] THEN rv ELSE ru
             other == IF dying = ru THEN rv ELSE ru
             nxt == IF ru = rv
                    THEN [st EXCEPT !.cyc = @ \cup {e}]
                    ELSE [root |-> [w \in DOMAIN st.root |->
                                       IF st.root[w] = dying THEN other
                                       ELSE st.root[w]],
                          dead |-> st.dead \cup {dying},
                          death |-> [st.death EXCEPT ![dying] = fec[e]],
                          cyc |-> st.cyc]
         IN  UnionFind(Tail(order), edges, fvc, fec, nxt)

\* the death of a cycle taken from the first edge of the order, not the last
GraphPersistenceFirstEdge(fvc, fec, edges, lo, hi, elo, ehi) ==
    LET verts == lo..(hi - 1)
        rows == (elo + 1)..ehi
        order == SortRows(rows, fec)
        st == UnionFind(order, edges, fvc, fec,
                        [root |-> [w \in verts |-> w], dead |-> {},
                         death |-> [w \in verts |-> fvc[w]], cyc |-> {}])
        first == IF order = <<>> THEN 0 ELSE fec[order[1]]
    IN  [p0 |-> [w \in verts |-> <<fvc[w], st.death[w]>>],
         p1 |-> [e \in rows |-> IF e \in st.cyc THEN <<fec[e], first>> ELSE ZeroPair],
         dead |-> st.dead,
         cyc |-> st.cyc]

\* one (graph, channel) task: vertices lo..hi-1, edge rows elo+1..ehi
GraphPersistence(fvc, fec, edges, lo, hi, elo, ehi) ==
    LET verts == lo..(hi - 1)
        rows == (elo + 1)..ehi
        order == SortRows(rows, fec)
        st == UnionFind(order, edges, fvc, fec,
                        [root |-> [w \in verts |-> w], dead |-> {},
                         death |-> [w \in verts |-> fvc[w]], cyc |-> {}])
        last == IF order = <<>> THEN 0 ELSE fec[order[Len(order)]]
    IN  [p0 |-> [w \in verts |-> <<fvc[w], st.death[w]>>],
         p1 |-> [e \in rows |-> IF e \in st.cyc THEN <<fec[e], last>> ELSE ZeroPair],
         dead |-> st.dead,
         cyc |-> st.cyc]

Monotonic(s) == \A i \in 1..(Len(s) - 1) : s[i] <= s[i + 1]
InRange(s, n) == \A i \in 1..Len(s) : 0 <= s[i] /\ s[i] <= n

\* entry validation of the slice offsets: monotonic, in range, and an edge
\* offset for every vertex offset
ValidSlices(vs, es, n, m) ==
    /\ Len(vs) >= 1
    /\ Len(es) = Len(vs)
    /\ Monotonic(vs) /\ Monotonic(es)
    /\ InRange(vs, n) /\ InRange(es, m)

\* content of an output entry that belongs to no graph's range; the buffers
\* have a fixed shape, what they hold outside every range is not specified
JunkKinds == {"zero", "index0"}
JunkPair(kind, arr) == IF kind = "zero" \/ DOMAIN arr = {} THEN ZeroPair
                       ELSE LET i == CHOOSE j \in DOMAIN arr : \A k \in DOMAIN arr : j <= k
                            IN  <<arr[i], arr[i]>>

ComputePersistenceHomologyBatched(fv, fe, edges, vs, es, n, junk) ==
    IF ~ValidSlices(vs, es, n, Len(edges))
    THEN [ok |-> FALSE]
    ELSE LET G == Len(vs) - 1
             task == [c \in 1..NumFiltrations |->
                        [g \in 1..G |->
                            GraphPersistence(fv[c], fe[c], edges,
                                             vs[g], vs[g + 1], es[g], es[g + 1])]]
             gv(v) == {g \in 1..G : vs[g] <= v /\ v < vs[g + 1]}
             ge(e) == {g \in 1..G : es[g] < e /\ e <= es[g + 1]}
         IN  [ok |-> TRUE,
              ngraphs |-> G,
              pers0 |-> [c \in 1..NumFiltrations |->
                          [v \in 0..(n - 1) |->
                              IF gv(v) = {} THEN JunkPair(junk, fv[c])
                              ELSE task[c][CHOOSE g \in gv(v) : TRUE].p0[v]]],
              pers1 |-> [c \in 1..NumFiltrations |->
                          [e \in 1..Len(edges) |->
                              IF ge(e) = {} THEN JunkPair(junk, fe[c])
                              ELSE task[c][CHOOSE g \in ge(e) : TRUE].p1[e]]],
              dead |-> [c \in 1..NumFiltrations |->
                          UNION {task[c][g].dead : g \in 1..G}],
              cyc |-> [c \in 1..NumFiltrations |->
                          UNION {task[c][g].cyc : g \in 1..G}]]

\* the output buffers when no entry is computed
JunkOutput(fv, fe, edges, vs, n, junk) ==
    [ok |-> TRUE,
     ngraphs |-> Len(vs) - 1,
     pers0 |-> [c \in 1..NumFiltrations |-> [v \in 0..(n - 1) |-> JunkPair(junk, fv[c])]],
     pers1 |-> [c \in 1..NumFiltrations |->
                 [e \in 1..Len(edges) |-> JunkPair(junk, fe[c])]],
     dead |-> [c \in 1..NumFiltrations |-> {}],
     cyc |-> [c \in 1..NumFiltrations |-> {}]]

\* what a call of the engine can produce.  An edge whose endpoint is not a
\* vertex makes the engine read outside its arrays: it may fail or return
\* buffers of unspecified content.
EngineOutcomes(fv, fe, edges, vs, es, n) ==
    IF AllEndpointsValid(edges, n)
    THEN {ComputePersistenceHomologyBatched(fv, fe, edges, vs, es, n, junk) :
              junk \in JunkKinds}
    ELSE {[ok |-> FALSE]} \cup
         {JunkOutput(fv, fe, edges, vs, n, junk) : junk \in JunkKinds}

\* fake_persistence_computation (layers): the cheap substitute.  Every
\* vertex gets the pair (own value, own value); the approximate dim1 pairing
\* is one of: no edge paired, or every edge paired with its own value.
FakeKinds == {"unpaired", "paired"}
FakePersistenceComputation(fv, fe, edges, vs, n, kind) ==
    [ok |-> TRUE,
     ngraphs |-> Len(vs) - 1,
     pers0 |-> [c \in 1..NumFiltrations |-> [v \in 0..(n - 1) |-> <<fv[c][v], fv[c][v]>>]],
     pers1 |-> [c \in 1..NumFiltrations |->
                 [e \in 1..Len(edges) |->
                     IF kind = "unpaired" THEN ZeroPair ELSE <<fe[c][e], fe[c][e]>>]],
     dead |-> [c \in 1..NumFiltrations |-> {}],
     cyc |-> [c \in 1..NumFiltrations |-> {}]]

\* ------------------------------------------------ coordinate functions
\* coord_transforms: four families, each with a number of outputs.  The
\* value of output k of a family at a pair is kept as the formal term
\* <<family, k, dim, pair>>; vectors hold formal sums (bags) of terms.
Families == <<"Triangle_transform", "Gaussian_transform",
              "Line_transform", "RationalHat_transform">>

RECURSIVE ConcatAll(_)
ConcatAll(ss) == IF ss = <<>> THEN <<>> ELSE ss[1] \o ConcatAll(Tail(ss))

\* the dictionary {"Triangle_transform": n, "Gaussian_transform": n, ...} in
\* its insertion order, as a sequence of <<key, value>>
CoordFunDict(n) == [i \in 1..Len(Families) |-> <<Families[i], n>>]

\* the dictionary the module lists are built from: coord_fun_modules (d = 0)
\* and coord_fun_modules1 (d = 1).  topolayer.py builds both from an int;
\* models.py iterates over the num_coord_funs argument itself, a dictionary
CoordFunModules(d) ==
    IF d = 1 THEN CoordFunDict(cfg.num_coord_funs1)
    ELSE IF variant = "models" THEN cfg.num_coord_funs
    ELSE CoordFunDict(cfg.num_coord_funs)

\* np.array(list(d.values())).sum()
TotalNumCoordFuns(d) ==
    SumSeq([i \in 1..Len(CoordFunModules(d)) |-> CoordFunModules(d)[i][2]])

\* the outputs of the module list in order: <<family, k>>
ModuleOutputs(mods) ==
    ConcatAll([i \in 1..Len(mods) |-> [k \in 1..mods[i][2] |-> <<mods[i][1], k>>]])

\* compute_coord_fun: cat over the modules, in the order of the dictionary
ComputeCoordFun(pair, d) ==
    LET outs == ModuleOutputs(CoordFunModules(d))
    IN  [i \in 1..Len(outs) |-> SetToBag({<<outs[i][1], outs[i][2], d, pair>>})]

\* compute_coord_activations: row r of cat over the channels
ComputeCoordActivations(persistences, r, d) ==
    ConcatAll([c \in 1..NumFiltrations |-> ComputeCoordFun(persistences[c][r], d)])

\* the width of a row of compute_coord_activations
ActivationWidth(d) == NumFiltrations * TotalNumCoordFuns(d)
\* the sum over no rows of the dim1 activations
ZeroVec == [i \in 1..ActivationWidth(1) |-> EmptyBag]
VecAdd(a, b) == [i \in 1..Len(a) |-> a[i] (+) b[i]]

\* t.sum(axis=0) of a [k, d] tensor; only the dim1 activations are ever
\* summed over an empty range
RECURSIVE VecSum(_)
VecSum(t) == IF t = <<>> THEN ZeroVec
             ELSE IF Len(t) = 1 THEN t[1]
             ELSE VecAdd(t[1], VecSum(Tail(t)))

\* persistence1_mask = (persistences1 != 0).any(2).any(0)
Persistence1Mask(p1, m) ==
    [e \in 1..m |-> \E c \in 1..NumFiltrations : \E k \in 1..2 : p1[c][e][k] # 0]

\* the coordinate activations of dim0 summed over each graph's vertices and
\* handed to every vertex of the graph
Dim0ActivationsPooled(p0, nv) ==
    [v \in 0..(SumSeq(nv) - 1) |->
        LET lo == (<<0>> \o Cumsum(nv))[CHOOSE g \in 1..Len(nv) :
                      (<<0>> \o Cumsum(nv))[g] <= v /\ v < (<<0>> \o Cumsum(nv))[g + 1]]
            hi == (<<0>> \o Cumsum(nv))[1 + CHOOSE g \in 1..Len(nv) :
                      (<<0>> \o Cumsum(nv))[g] <= v /\ v < (<<0>> \o Cumsum(nv))[g + 1]]
        IN  VecSum([i \in 1..(hi - lo) |-> ComputeCoordActivations(p0, lo + i - 1, 0)])]

\* coord_activations = compute_coord_activations(persistences0, batch): one
\* row per vertex, passed on to self.out without any pooling
Dim0Activations(p0, nv) ==
    [v \in 0..(SumSeq(nv) - 1) |-> ComputeCoordActivations(p0, v, 0)]

\* ------------------------------------------------------- collapse_dim1
SegmentSums(activations, mask, slices) ==
    [el \in 1..(Len(slices) - 1) |->
        VecSum(MaskSelect(PySlice(activations, slices[el], slices[el + 1]),
                          PySlice(mask, slices[el], slices[el + 1])))]

\* torch.stack of an empty list raises
Stack(rows) == IF rows = <<>> THEN [ok |-> FALSE, rows |-> <<>>]
               ELSE [ok |-> TRUE, rows |-> rows]

\* topolayer.py: a one-element slices tensor gets a 0 appended
CollapseDim1(activations, mask, slices) ==
    LET slices2 == IF Len(slices) = 1 THEN slices \o <<0>> ELSE slices
    IN  Stack(SegmentSums(activations, mask, slices2))

\* models.py
CollapseDim1Models(activations, mask, slices) ==
    Stack(SegmentSums(activations, mask, slices))

\* ------------------------------------------- __init__: the projections
\* in_out_dim, the input width declared for self.out
InOutDim ==
    IF cfg.residual_and_bn THEN NumFiltrations * TotalNumCoordFuns(0)
    ELSE IF cfg.dist_dim1
         THEN cfg.features_in + 2 * NumFiltrations * TotalNumCoordFuns(0)
         ELSE cfg.features_in + NumFiltrations * TotalNumCoordFuns(0)

\* the requested features_out, without the residual override
OutFeaturesRequested == cfg.features_out

\* the output width of self.out: features_out = features_in when
\* residual_and_bn is set
OutFeatures == IF cfg.residual_and_bn THEN cfg.features_in ELSE cfg.features_out

\* self.out1 exists only under residual_and_bn with dist_dim1 and dim1
HasOut1 == cfg.residual_and_bn /\ cfg.dist_dim1 /\ dim1
\* the input width declared for self.out1
Out1InDim == NumFiltrations * TotalNumCoordFuns(0)

\* torch.nn.Linear(in_dim, out_dim) applied to rows of the given width: the
\* product of row r is kept as the formal term [lin, arg]
Linear(name, in_dim, out_dim, rows, width) ==
    IF width # in_dim THEN [ok |-> FALSE, width |-> 0, rows |-> <<>>]
    ELSE [ok |-> TRUE, width |-> out_dim,
          rows |-> [r \in DOMAIN rows |-> [lin |-> name, arg |-> rows[r]]]]

\* ------------------------------------------------- forward: the fusion
NoOut == [some |-> FALSE, mode |-> "", width |-> 0, rows |-> <<>>]

\* the object forward knows as batch: the Batch of the call, or None
BatchArgument == IF variant = "models" \/ has_batch THEN "Batch" ELSE "None"

\* self.out1(graph_activations1)[batch], added in place to out_activations
\* of shape [N, features_out].  Indexing with None prepends an axis, and the
\* in-place sum refuses the broadcast shape [1, N, features_out]; a Batch
\* object is no valid index.
Out1Head(g1rows) ==
    LET l == Linear("out1", Out1InDim, OutFeatures, g1rows, Len(g1rows[1]))
    IN  IF ~l.ok THEN [ok |-> FALSE, err |-> "RuntimeError", rows |-> <<>>]
        ELSE IF BatchArgument = "None"
        THEN [ok |-> FALSE, err |-> "RuntimeError", rows |-> <<>>]
        ELSE [ok |-> FALSE, err |-> "IndexError", rows |-> <<>>]

\* lines 216-231 of forward; coord are the dim0 activations (one row per
\* vertex) and g1 the collapsed dim1 activations or None
Fuse(coord, g1) ==
    IF cfg.residual_and_bn
    THEN LET l == Linear("out", InOutDim, OutFeatures, coord, Len(coord[0]))
             h == Out1Head(g1.rows)
         IN  IF ~l.ok THEN [ok |-> FALSE, err |-> "RuntimeError"]
             ELSE IF dim1 /\ cfg.dist_dim1 /\ ~h.ok THEN [ok |-> FALSE, err |-> h.err]
             ELSE [ok |-> TRUE, err |-> "",
                   g1 |-> IF dim1 /\ cfg.dist_dim1 THEN [some |-> FALSE, rows |-> <<>>]
                          ELSE g1,
                   out |-> [some |-> TRUE, mode |-> "residual", width |-> l.width,
                            rows |-> [v \in DOMAIN coord |->
                                        [x |-> x[v], relu |-> cfg.swap_bn_order,
                                         bn |-> l.rows[v],
                                         plus |-> IF dim1 /\ cfg.dist_dim1
                                                  THEN <<h.rows[v]>> ELSE <<>>]]]]
    ELSE LET cat == [v \in DOMAIN coord |-> [x |-> x[v], coord |-> coord[v]]]
             l == Linear("out", InOutDim, OutFeatures, cat,
                         cfg.features_in + Len(coord[0]))
         IN  IF ~l.ok THEN [ok |-> FALSE, err |-> "RuntimeError"]
             ELSE [ok |-> TRUE, err |-> "", g1 |-> g1,
                   out |-> [some |-> TRUE, mode |-> "concat", width |-> l.width,
                            rows |-> [v \in DOMAIN coord |->
                                        [relu |-> TRUE, lin |-> l.rows[v]]]]]

\* ------------------------------------------------------ inputs of a call
\* graph (1-based position in the batch) of vertex v under vertex counts nv
GraphOf(nv, v) ==
    CHOOSE g \in 1..Len(nv) : VertexSlices(nv)[g] <= v /\ v < VertexSlices(nv)[g + 1]

\* __slices__["edge_index"] as the collation of the graphs builds it
CollateSlices(nv, edges) ==
    <<0>> \o Cumsum([g \in 1..Len(nv) |->
                        Cardinality({i \in 1..Len(edges) : GraphOf(nv, edges[i][1]) = g})])

NvertsChoices(maxn) ==
    {nv \in UNION {[1..g -> 1..maxn] : g \in 1..MaxGraphs} : SumSeq(nv) <= maxn}

\* edge lists of a packed batch: every edge inside one graph, graph by graph;
\* at most MaxEdges rows, and at most MaxSize vertices and rows together
EdgeLists(nv) ==
    LET n == SumSeq(nv)
    IN  {es \in UNION {[1..k -> (0..(n - 1)) \X (0..(n - 1))] :
                          k \in 0..Min(MaxEdges, MaxSize - n)} :
            /\ \A i \in 1..Len(es) : GraphOf(nv, es[i][1]) = GraphOf(nv, es[i][2])
            /\ \A i \in 1..(Len(es) - 1) :
                   GraphOf(nv, es[i][1]) <= GraphOf(nv, es[i + 1][1])}

\* rows ascending by (source, destination)
RECURSIVE SortPairs(_)
SortPairs(ps) ==
    IF ps = {} THEN <<>>
    ELSE LET m == CHOOSE p \in ps :
                      \A q \in ps : p[1] < q[1] \/ (p[1] = q[1] /\ p[2] <= q[2])
         IN  <<m>> \o SortPairs(ps \ {m})

\* undirected simple graphs, each edge {u, v} stored as (u, v) and (v, u)
SymEdgeLists(nv) ==
    LET n == SumSeq(nv)
        und == {p \in (0..(n - 1)) \X (0..(n - 1)) :
                    p[1] < p[2] /\ GraphOf(nv, p[1]) = GraphOf(nv, p[2])}
    IN  {SortPairs(S \cup {<<p[2], p[1]>> : p \in S}) : S \in SUBSET und}

NodeFeatures(n) == [0..(n - 1) -> 0..MaxX]

Call(nv, es, xs) == [nverts |-> nv, edges |-> es, slices |-> CollateSlices(nv, es), x |-> xs]

GeneralCalls ==
    UNION {{Call(nv, es, xs) : es \in EdgeLists(nv), xs \in NodeFeatures(SumSeq(nv))} :
              nv \in NvertsChoices(MaxNodes)}

SymCalls ==
    UNION {{Call(nv, es, xs) : es \in SymEdgeLists(nv), xs \in NodeFeatures(SumSeq(nv))} :
              nv \in NvertsChoices(MaxSymNodes)}

\* ---------------------------------------------------------------- state
NoEngine == [called |-> FALSE]
NoWorkers == [active |-> FALSE]
NoPers == [ok |-> FALSE]
None == [some |-> FALSE, rows |-> <<>>]

\* the num_coord_funs argument: an int in topolayer.py, a dictionary in
\* models.py
NumCoordFunsArgument(var, n) == IF var = "models" THEN CoordFunDict(n) ELSE n

\* the constructor's defaults for the options
DefaultConfig(var) ==
    [residual_and_bn |-> FALSE, swap_bn_order |-> FALSE, dist_dim1 |-> FALSE,
     fake |-> FALSE, features_in |-> FeaturesIn, features_out |-> FeaturesIn,
     num_coord_funs |-> NumCoordFunsArgument(var, NumCoordFuns),
     num_coord_funs1 |-> NumCoordFuns]

Configs(var) ==
    [residual_and_bn : BOOLEAN, swap_bn_order : BOOLEAN, dist_dim1 : BOOLEAN,
     fake : BOOLEAN, features_in : {FeaturesIn}, features_out : 1..MaxFeaturesOut,
     num_coord_funs : {NumCoordFunsArgument(var, n) : n \in 1..NumCoordFuns},
     num_coord_funs1 : 1..NumCoordFuns]

\* no forward pass is running
Idle ==
    /\ pc = "idle"
    /\ has_batch = FALSE
    /\ nverts = <<>>
    /\ in_edges = <<>>
    /\ in_slices = <<>>
    /\ x = <<>>
    /\ filt = <<>>
    /\ batch_edges = <<>>
    /\ batch_slices = <<>>
    /\ fwd_edge_slices = <<>>
    /\ filtered_e = <<>>
    /\ engine_in = NoEngine
    /\ pers = NoPers
    /\ coord_activations = <<>>
    /\ graph_activations1 = None
    /\ err = ""
    /\ fake_in = NoEngine
    /\ out_activations = NoOut
    /\ mt = NoWorkers

\* a layer built with the default options
Init ==
    /\ variant \in {"topolayer", "models"}
    /\ dim1 \in BOOLEAN
    /\ cfg = DefaultConfig(variant)
    /\ Idle

\* a layer built with any options
InitCfg ==
    /\ variant \in {"topolayer", "models"}
    /\ dim1 \in BOOLEAN
    /\ cfg \in Configs(variant)
    /\ Idle

NumNodes == SumSeq(nverts)

\* topolayer.py forward, up to the call of compute_persistence: no duplicate
\* edge removal; edge_slices is [edge_index.shape[0]] without a batch
ForwardTopolayer(calls) ==
    /\ pc = "idle" /\ variant = "topolayer"
    /\ \E call \in calls, hb \in BOOLEAN :
        /\ hb \/ Len(call.nverts) = 1
        /\ has_batch' = hb
        /\ nverts' = call.nverts
        /\ in_edges' = call.edges
        /\ in_slices' = call.slices
        /\ x' = call.x
        /\ batch_edges' = call.edges
        /\ batch_slices' = call.slices
        /\ fwd_edge_slices' = IF hb THEN call.slices ELSE <<EdgeIndexRows>>
    /\ pc' = "persistence"
    /\ UNCHANGED <<variant, dim1, filt, filtered_e, engine_in, pers,
                   coord_activations, graph_activations1, err, cfg, fake_in,
                   out_activations, mt>>

\* models.py forward, up to the call of compute_persistence:
\* batch = remove_duplicate_edges(batch)
ForwardModels(calls) ==
    /\ pc = "idle" /\ variant = "models"
    /\ \E call \in calls :
        LET d == RemoveDuplicateEdges(call.edges, call.slices)
        IN  /\ has_batch' = TRUE
            /\ nverts' = call.nverts
            /\ in_edges' = call.edges
            /\ in_slices' = call.slices
            /\ x' = call.x
            /\ batch_edges' = d.edge_index
            /\ batch_slices' = d.slices
            /\ fwd_edge_slices' = d.slices
    /\ pc' = "persistence"
    /\ UNCHANGED <<variant, dim1, filt, filtered_e, engine_in, pers,
                   coord_activations, graph_activations1, err, cfg, fake_in,
                   out_activations, mt>>

\* compute_persistence up to the edge filtration: an endpoint that is no
\* accepted index raises at filtered_v_[edge_index[...]]
FiltrationFails ==
    /\ ~AllIndexAccepted(batch_edges, NumNodes)
    /\ filt' = FilteredV(x)
    /\ filtered_e' = <<>>
    /\ pc' = "error" /\ err' = "IndexError"
    /\ UNCHANGED <<engine_in, fake_in, pers>>

\* compute_persistence from the slices on: the fake substitute when
\* self.fake is set, else the call of the engine and what follows it
RunEngine(vs, es) ==
    LET fv == FilteredV(x)
        fe == EdgeFiltration(fv, batch_edges)
        args == [called |-> TRUE, vertex_slices |-> vs, edge_slices |-> es,
                 edge_index |-> batch_edges]
    IN  /\ AllIndexAccepted(batch_edges, NumNodes)
        /\ filt' = fv
        /\ filtered_e' = fe
        /\ IF cfg.fake
           THEN /\ fake_in' = args
                /\ \E kind \in FakeKinds :
                       pers' = FakePersistenceComputation(fv, fe, batch_edges, vs,
                                                          NumNodes, kind)
                /\ pc' = "aggregate" /\ err' = ""
                /\ UNCHANGED engine_in
           ELSE /\ engine_in' = args
                /\ \E out \in EngineOutcomes(fv, fe, batch_edges, vs, es, NumNodes) :
                       /\ pers' = out
                       /\ IF out.ok THEN pc' = "aggregate" /\ err' = ""
                          ELSE pc' = "error" /\ err' = "EngineError"
                /\ UNCHANGED fake_in

\* topolayer.py compute_persistence: the slices are set only when batch is
\* None; with a batch, vertex_slices is read before assignment
ComputePersistenceTopolayer ==
    /\ pc = "persistence" /\ variant = "topolayer"
    /\ \/ FiltrationFails
       \/ /\ has_batch
          /\ AllIndexAccepted(batch_edges, NumNodes)
          /\ filt' = FilteredV(x)
          /\ filtered_e' = EdgeFiltration(FilteredV(x), batch_edges)
          /\ pc' = "error" /\ err' = "UnboundLocalError"
          /\ UNCHANGED <<engine_in, fake_in, pers>>
       \/ /\ ~has_batch
          /\ RunEngine(<<NumNodes>>, <<EdgeIndexRows>>)
    /\ UNCHANGED <<variant, dim1, has_batch, nverts, in_edges, in_slices, x,
                   batch_edges, batch_slices, fwd_edge_slices, coord_activations,
                   graph_activations1, cfg, out_activations, mt>>

\* models.py compute_persistence
ComputePersistenceModels ==
    /\ pc = "persistence" /\ variant = "models"
    /\ \/ FiltrationFails
       \/ RunEngine(VertexSlices(nverts), batch_slices)
    /\ UNCHANGED <<variant, dim1, has_batch, nverts, in_edges, in_slices, x,
                   batch_edges, batch_slices, fwd_edge_slices, coord_activations,
                   graph_activations1, cfg, out_activations, mt>>

\* forward after compute_persistence: the coordinate activations of both
\* dimensions, the collapse of dim1 and the fusion into the embedding
Aggregate(collapsed) ==
    LET coord == Dim0Activations(pers.pers0, nverts)
        g1 == IF dim1 THEN [some |-> TRUE, rows |-> collapsed.rows] ELSE None
        fused == Fuse(coord, g1)
    IN  /\ coord_activations' = coord
        /\ IF dim1 /\ ~collapsed.ok
           THEN /\ graph_activations1' = None
                /\ out_activations' = NoOut
                /\ pc' = "error" /\ err' = "RuntimeError"
           ELSE IF ~fused.ok
           THEN /\ graph_activations1' = g1
                /\ out_activations' = NoOut
                /\ pc' = "error" /\ err' = fused.err
           ELSE /\ graph_activations1' = fused.g1
                /\ out_activations' = fused.out
                /\ pc' = "done" /\ err' = ""
        /\ UNCHANGED <<variant, dim1, has_batch, nverts, in_edges, in_slices, x, filt,
                       batch_edges, batch_slices, fwd_edge_slices, filtered_e,
                       engine_in, pers, cfg, fake_in, mt>>

Coord1 == [e \in 1..Len(batch_edges) |-> ComputeCoordActivations(pers.pers1, e, 1)]
Mask1 == Persistence1Mask(pers.pers1, Len(batch_edges))

AggregateTopolayer ==
    /\ pc = "aggregate" /\ variant = "topolayer"
    /\ Aggregate(CollapseDim1(Coord1, Mask1, fwd_edge_slices))

AggregateModels ==
    /\ pc = "aggregate" /\ variant = "models"
    /\ Aggregate(CollapseDim1Models(Coord1, Mask1, fwd_edge_slices))

\* forward returns or raises; the layer keeps nothing of the pass
Return ==
    /\ pc \in {"done", "error"}
    /\ pc' = "idle"
    /\ has_batch' = FALSE
    /\ nverts' = <<>> /\ in_edges' = <<>> /\ in_slices' = <<>>
    /\ x' = <<>> /\ filt' = <<>>
    /\ batch_edges' = <<>> /\ batch_slices' = <<>> /\ fwd_edge_slices' = <<>>
    /\ filtered_e' = <<>>
    /\ engine_in' = NoEngine
    /\ pers' = NoPers
    /\ coord_activations' = <<>>
    /\ graph_activations1' = None
    /\ err' = ""
    /\ fake_in' = NoEngine
    /\ out_activations' = NoOut
    /\ mt' = NoWorkers
    /\ UNCHANGED <<variant, dim1, cfg>>

\* the whole forward pass as a function of the call: what the actions above
\* compute step by step
ForwardResult(var, hb, d1, nv, edges, slices, xs, junk) ==
    LET f == FilteredV(xs)
        d == IF var = "models" THEN RemoveDuplicateEdges(edges, slices)
             ELSE [edge_index |-> edges, slices |-> slices]
        n == SumSeq(nv)
        fe == EdgeFiltration(f, d.edge_index)
        vs == IF var = "models" THEN VertexSlices(nv) ELSE <<n>>
        es == IF var = "models" THEN d.slices ELSE <<EdgeIndexRows>>
        out == ComputePersistenceHomologyBatched(f, fe, d.edge_index, vs, es, n, junk)
        agg == IF var = "models" \/ hb THEN d.slices ELSE <<EdgeIndexRows>>
        c1 == [e \in 1..Len(d.edge_index) |-> ComputeCoordActivations(out.pers1, e, 1)]
        m1 == Persistence1Mask(out.pers1, Len(d.edge_index))
        coll == IF var = "models" THEN CollapseDim1Models(c1, m1, agg)
                ELSE CollapseDim1(c1, m1, agg)
    IN  IF var = "topolayer" /\ hb THEN [ok |-> FALSE]
        ELSE IF ~out.ok THEN [ok |-> FALSE]
        ELSE IF d1 /\ ~coll.ok THEN [ok |-> FALSE]
        ELSE [ok |-> TRUE,
              coord0 |-> Dim0Activations(out.pers0, nv),
              g1 |-> IF d1 THEN coll.rows ELSE <<>>]

Next ==
    \/ ForwardTopolayer(GeneralCalls)
    \/ ForwardModels(GeneralCalls)
    \/ ComputePersistenceTopolayer
    \/ ComputePersistenceModels
    \/ AggregateTopolayer
    \/ AggregateModels
    \/ Return

Spec == Init /\ [][Next]_vars

NextSym ==
    \/ ForwardTopolayer(SymCalls)
    \/ ForwardModels(SymCalls)
    \/ ComputePersistenceTopolayer
    \/ ComputePersistenceModels
    \/ AggregateTopolayer
    \/ AggregateModels
    \/ Return

SpecSym == Init /\ [][NextSym]_vars

\* calls for the layers built with any options: undirected simple graphs in
\* both directions, vertex v with feature min(v, MaxX)
CfgCalls ==
    UNION {{Call(nv, es, [v \in 0..(SumSeq(nv) - 1) |-> Min(v, MaxX)]) :
                es \in SymEdgeLists(nv)} :
              nv \in NvertsChoices(MaxNodes)}

NextCfg ==
    \/ ForwardTopolayer(CfgCalls)
    \/ ForwardModels(CfgCalls)
    \/ ComputePersistenceTopolayer
    \/ ComputePersistenceModels
    \/ AggregateTopolayer
    \/ AggregateModels
    \/ Return

SpecCfg == InitCfg /\ [][NextCfg]_vars

\* calls on one graph whose edge list may name endpoints that are no
\* vertices: any value in -n-1..n; fewer than MaxSize vertices and rows
\* together
RangeCalls ==
    UNION {{[nverts |-> <<n>>, edges |-> es, slices |-> <<0, Len(es)>>,
             x |-> [v \in 0..(n - 1) |-> Min(v, MaxX)]] :
                es \in UNION {[1..k -> ((-n - 1)..n) \X ((-n - 1)..n)] :
                                 k \in 1..Min(MaxEdges, MaxSize - n - 1)}} :
              n \in 1..MaxNodes}

NextRange ==
    \/ ForwardTopolayer(RangeCalls)
    \/ ForwardModels(RangeCalls)
    \/ ComputePersistenceTopolayer
    \/ ComputePersistenceModels
    \/ AggregateTopolayer
    \/ AggregateModels
    \/ Return

SpecRange == Init /\ [][NextRange]_vars

\* --------------------------------------- how the counts are supplied
\* the num_coord_funs argument a layer can be built with: topolayer.py takes
\* an int, models.py a dictionary from the four family names to counts, in
\* any insertion order
SuppliedCounts(var) ==
    IF var = "models"
    THEN {a \in [1..Len(Families) ->
                    {Families[i] : i \in 1..Len(Families)} \X (1..NumCoordFuns)] :
             \A i, j \in 1..Len(Families) : i # j => a[i][1] # a[j][1]}
    ELSE 1..NumCoordFuns

\* a layer built with the default options but for the two counts
InitLayout ==
    /\ variant \in {"topolayer", "models"}
    /\ dim1 \in BOOLEAN
    /\ \E a \in SuppliedCounts(variant), n1 \in 1..NumCoordFuns :
           cfg = [DefaultConfig(variant) EXCEPT !.num_coord_funs = a,
                                                !.num_coord_funs1 = n1]
    /\ Idle

SpecLayout == InitLayout /\ [][NextCfg]_vars

\* ------------------------------------------- the engine's worker threads
\* compute_persistence_homology_batched_mt: the (graph, channel) tasks are
\* handed to NumWorkers threads, each task writes its graph's vertex range
\* of the dim0 buffer and its graph's edge range of the dim1 buffer.

Workers == 1..NumWorkers

\* tasks are numbered graph by graph, channel by channel
NumTasks(vs) == (Len(vs) - 1) * NumFiltrations
TaskGraph(t) == ((t - 1) \div NumFiltrations) + 1
TaskChannel(t) == ((t - 1) % NumFiltrations) + 1

\* a vertex range that reaches one vertex into the next graph
TaskRangeOverlapping(vs, es, g) ==
    [lo |-> vs[g], hi |-> Min(vs[g + 1] + 1, vs[Len(vs)]),
     elo |-> es[g], ehi |-> es[g + 1]]

\* the index ranges of graph g: vertices lo..hi-1, edge rows elo+1..ehi
TaskRange(vs, es, g) ==
    [lo |-> vs[g], hi |-> vs[g + 1], elo |-> es[g], ehi |-> es[g + 1]]

\* what task t computes and where it writes
TaskOutput(t) ==
    LET r == TaskRange(engine_in.vertex_slices, engine_in.edge_slices, TaskGraph(t))
        c == TaskChannel(t)
    IN  GraphPersistence(filt[c], filtered_e[c], batch_edges, r.lo, r.hi, r.elo, r.ehi)

\* the preallocated buffers before any task has written
StartWorkers(fv, fe, n, m, junk) ==
    [active |-> TRUE,
     junk |-> junk,
     next |-> 1,
     running |-> [w \in Workers |-> 0],
     buf0 |-> [c \in 1..NumFiltrations |-> [v \in 0..(n - 1) |-> JunkPair(junk, fv[c])]],
     buf1 |-> [c \in 1..NumFiltrations |-> [e \in 1..m |-> JunkPair(junk, fe[c])]],
     writers0 |-> [c \in 1..NumFiltrations |-> [v \in 0..(n - 1) |-> {}]],
     writers1 |-> [c \in 1..NumFiltrations |-> [e \in 1..m |-> {}]],
     dead |-> [c \in 1..NumFiltrations |-> {}],
     cyc |-> [c \in 1..NumFiltrations |-> {}]]

\* calls for the runs of the worker threads: packed batches, vertex v with
\* feature min(v, MaxX)
MTCalls ==
    UNION {{Call(nv, es, [v \in 0..(SumSeq(nv) - 1) |-> Min(v, MaxX)]) :
                es \in EdgeLists(nv)} :
              nv \in NvertsChoices(MaxNodes)}

\* a layer of models.py built with the default options and dim1 = True
InitMT == Init /\ variant = "models" /\ dim1

\* models.py compute_persistence up to the call of the engine, and the
\* engine's entry: offsets validated, buffers allocated
EngineStart ==
    /\ pc = "persistence" /\ variant = "models" /\ ~cfg.fake
    /\ AllIndexAccepted(batch_edges, NumNodes)
    /\ AllEndpointsValid(batch_edges, NumNodes)
    /\ LET fv == FilteredV(x)
           fe == EdgeFiltration(fv, batch_edges)
           vs == VertexSlices(nverts)
       IN  /\ filt' = fv
           /\ filtered_e' = fe
           /\ engine_in' = [called |-> TRUE, vertex_slices |-> vs,
                            edge_slices |-> batch_slices, edge_index |-> batch_edges]
           /\ IF ValidSlices(vs, batch_slices, NumNodes, Len(batch_edges))
              THEN /\ \E junk \in JunkKinds :
                          mt' = StartWorkers(fv, fe, NumNodes, Len(batch_edges), junk)
                   /\ pc' = "engine" /\ err' = ""
              ELSE /\ mt' = NoWorkers
                   /\ pc' = "error" /\ err' = "EngineError"
    /\ UNCHANGED <<variant, dim1, has_batch, nverts, in_edges, in_slices, x,
                   batch_edges, batch_slices, fwd_edge_slices, pers,
                   coord_activations, graph_activations1, cfg, fake_in,
                   out_activations>>

\* an idle worker takes the next task
WorkerTake(w) ==
    /\ pc = "engine"
    /\ mt.running[w] = 0
    /\ mt.next <= NumTasks(engine_in.vertex_slices)
    /\ mt' = [mt EXCEPT !.running[w] = mt.next, !.next = @ + 1]
    /\ UNCHANGED <<pc, variant, dim1, has_batch, nverts, in_edges, in_slices, x, filt,
                   batch_edges, batch_slices, fwd_edge_slices, filtered_e, engine_in,
                   pers, coord_activations, graph_activations1, err, cfg, fake_in,
                   out_activations>>

\* a worker writes the pairs of its task into the two buffers
WorkerWrite(w) ==
    /\ pc = "engine"
    /\ mt.running[w] # 0
    /\ LET t == mt.running[w]
           c == TaskChannel(t)
           r == TaskOutput(t)
       IN  mt' = [mt EXCEPT
                    !.running[w] = 0,
                    !.buf0[c] = [v \in DOMAIN @ |->
                                    IF v \in DOMAIN r.p0 THEN r.p0[v] ELSE @[v]],
                    !.buf1[c] = [e \in DOMAIN @ |->
                                    IF e \in DOMAIN r.p1 THEN r.p1[e] ELSE @[e]],
                    !.writers0[c] = [v \in DOMAIN @ |->
                                    IF v \in DOMAIN r.p0 THEN @[v] \cup {t} ELSE @[v]],
                    !.writers1[c] = [e \in DOMAIN @ |->
                                    IF e \in DOMAIN r.p1 THEN @[e] \cup {t} ELSE @[e]],
                    !.dead[c] = @ \cup r.dead,
                    !.cyc[c] = @ \cup r.cyc]
    /\ UNCHANGED <<pc, variant, dim1, has_batch, nverts, in_edges, in_slices, x, filt,
                   batch_edges, batch_slices, fwd_edge_slices, filtered_e, engine_in,
                   pers, coord_activations, graph_activations1, err, cfg, fake_in,
                   out_activations>>

AllTasksDone ==
    /\ mt.next > NumTasks(engine_in.vertex_slices)
    /\ \A w \in Workers : mt.running[w] = 0

\* the engine joins its workers and returns the two buffers
EngineJoin ==
    /\ pc = "engine"
    /\ AllTasksDone
    /\ pers' = [ok |-> TRUE,
                ngraphs |-> Len(engine_in.vertex_slices) - 1,
                pers0 |-> mt.buf0,
                pers1 |-> mt.buf1,
                dead |-> mt.dead,
                cyc |-> mt.cyc]
    /\ pc' = "aggregate"
    /\ UNCHANGED <<variant, dim1, has_batch, nverts, in_edges, in_slices, x, filt,
                   batch_edges, batch_slices, fwd_edge_slices, filtered_e, engine_in,
                   coord_activations, graph_activations1, err, cfg, fake_in,
                   out_activations, mt>>

NextMT ==
    \/ ForwardModels(MTCalls)
    \/ EngineStart
    \/ \E w \in Workers : WorkerTake(w)
    \/ \E w \in Workers : WorkerWrite(w)
    \/ EngineJoin
    \/ AggregateModels
    \/ Return

SpecMT == InitMT /\ [][NextMT]_vars

\* ======================================================== properties
Computed == pc \in {"aggregate", "done", "error"}

\* C1: for every edge (u, v) handed to compute_persistence and every
\* channel, the edge filtration value is the maximum of the two endpoint
\* values: at least both of them and equal to one of them.
C1_EdgeFiltrationIsMax ==
    Computed =>
        \A c \in 1..NumFiltrations :
            /\ Len(filtered_e[c]) = Len(batch_edges)
            /\ \A e \in 1..Len(batch_edges) :
                   LET a == filt[c][batch_edges[e][1]]
                       b == filt[c][batch_edges[e][2]]
                       m == filtered_e[c][e]
                   IN  m >= a /\ m >= b /\ (m = a \/ m = b)

C1_Witness ==
    /\ pc = "aggregate"
    /\ \E e \in 1..Len(batch_edges) :
           /\ filt[1][batch_edges[e][1]] < filt[1][batch_edges[e][2]]
           /\ filt[2][batch_edges[e][1]] > filt[2][batch_edges[e][2]]
           /\ filtered_e[1][e] = filt[1][batch_edges[e][2]]
           /\ filtered_e[2][e] = filt[2][batch_edges[e][1]]

\* rows of the call's edge list with source <= destination
KeptRows == {i \in 1..Len(in_edges) : in_edges[i][1] <= in_edges[i][2]}
NthOf(S, j) == CHOOSE i \in S : Cardinality({k \in S : k <= i}) = j
CountRows(edges, p) == Cardinality({i \in 1..Len(edges) : edges[i] = p})
Joining(edges, u, v) ==
    Cardinality({i \in 1..Len(edges) : {edges[i][1], edges[i][2]} = {u, v}})
BothDirections ==
    \A u \in 0..(NumNodes - 1), v \in 0..(NumNodes - 1) :
        u # v => CountRows(in_edges, <<u, v>>) = CountRows(in_edges, <<v, u>>)
Deduped == variant = "models" /\ pc # "idle"

\* C2: remove_duplicate_edges keeps exactly the edges with source <=
\* destination, in their original order and unchanged, and drops the others;
\* when every undirected edge {u, v}, u # v, is given in both directions the
\* result holds one edge per undirected edge.
C2_KeepsCanonicalEdges ==
    Deduped =>
        /\ Len(batch_edges) = Cardinality(KeptRows)
        /\ \A j \in 1..Len(batch_edges) : batch_edges[j] = in_edges[NthOf(KeptRows, j)]
        /\ BothDirections =>
               \A u \in 0..(NumNodes - 1), v \in 0..(NumNodes - 1) :
                   u < v => /\ Joining(batch_edges, u, v) = CountRows(in_edges, <<u, v>>)
                            /\ CountRows(batch_edges, <<v, u>>) = 0

C2_Witness ==
    /\ Deduped /\ BothDirections
    /\ \E i \in 1..Len(in_edges), j \in 1..Len(in_edges) :
           /\ i < j
           /\ in_edges[i][1] > in_edges[i][2]
           /\ in_edges[j] = <<in_edges[i][2], in_edges[i][1]>>
    /\ Len(batch_edges) = 1

WellFormedSlices(s, g, total) ==
    /\ Len(s) = g + 1
    /\ s[1] = 0
    /\ Monotonic(s)
    /\ s[Len(s)] = total

\* C3: after remove_duplicate_edges on a batch of G graphs the edge-slice
\* offsets have length G+1, start at 0, are nondecreasing, end at the number
\* of kept edges, and consecutive offsets differ by the number of kept edges
\* of the graph, also when a graph has no edges or loses all of them.
C3_SlicesAfterDedup ==
    Deduped =>
        /\ WellFormedSlices(batch_slices, Len(nverts), Len(batch_edges))
        /\ \A g \in 1..Len(nverts) :
               batch_slices[g + 1] - batch_slices[g] =
                   Cardinality({i \in KeptRows : in_slices[g] < i /\ i <= in_slices[g + 1]})

\* C4: the edge list handed to the persistence engine holds no edge with
\* source > destination and never both directions of one undirected edge.
C4_EngineSeesCanonicalEdges ==
    engine_in.called =>
        LET es == engine_in.edge_index
        IN  /\ \A i \in 1..Len(es) : es[i][1] <= es[i][2]
            /\ \A i \in 1..Len(es), j \in 1..Len(es) :
                   es[i][1] # es[i][2] => es[j] # <<es[i][2], es[i][1]>>

\* C5: in every forward call the vertex-slice and edge-slice offsets handed
\* to the engine are defined, have length G+1, start at 0, are
\* nondecreasing and end at the vertex count and at the edge count.
C5_EngineSlicesWellFormed ==
    Computed =>
        /\ engine_in.called
        /\ WellFormedSlices(engine_in.vertex_slices, Len(nverts), NumNodes)
        /\ WellFormedSlices(engine_in.edge_slices, Len(nverts),
                            Len(engine_in.edge_index))

\* the sum of the dim1 features of the flagged edges of graph g
FlaggedSum(g) ==
    VecSum(MaskSelect(Coord1,
                      [e \in 1..Len(batch_edges) |->
                          Mask1[e] /\ GraphOf(nverts, batch_edges[e][1]) = g]))

\* C6: collapse_dim1 as called by forward returns one vector per graph, the
\* sum of the dim1 features of the graph's edges whose pair differs from
\* (0, 0) in some channel and coordinate; also for a single-graph call.
C6_CollapseIsMaskedGraphSum ==
    (pc = "done" /\ dim1) =>
        /\ graph_activations1.some
        /\ Len(graph_activations1.rows) = Len(nverts)
        /\ \A g \in 1..Len(nverts) : graph_activations1.rows[g] = FlaggedSum(g)

\* graph g of the current call taken alone: its vertices renumbered from 0
AloneEdges(g) ==
    [i \in 1..(in_slices[g + 1] - in_slices[g]) |->
        <<in_edges[in_slices[g] + i][1] - VertexSlices(nverts)[g],
          in_edges[in_slices[g] + i][2] - VertexSlices(nverts)[g]>>]
AloneX(g) == [v \in 0..(nverts[g] - 1) |-> x[v + VertexSlices(nverts)[g]]]

\* C7: linearity under batching: the dim0 features and the aggregated dim1
\* vector of graph g are the same whether the layer runs on g alone or on g
\* inside a batch, whatever the other graphs and g's position.
C7_LinearityUnderBatching ==
    pc = "done" =>
        \A g \in 1..Len(nverts), junk \in JunkKinds :
            LET alone == ForwardResult(variant, variant = "models", dim1,
                                       <<nverts[g]>>, AloneEdges(g),
                                       <<0, Len(AloneEdges(g))>>, AloneX(g), junk)
                batch == ForwardResult(variant, TRUE, dim1, nverts, in_edges,
                                       in_slices, x, junk)
            IN  /\ alone.ok /\ batch.ok
                /\ \A v \in 0..(nverts[g] - 1) :
                       alone.coord0[v] = batch.coord0[v + VertexSlices(nverts)[g]]
                /\ dim1 => alone.g1[1] = batch.g1[g]

\* the sum of the dim0 features of all vertices of the graph of vertex v
GraphSum0(v) ==
    VecSum(MaskSelect([i \in 1..NumNodes |-> ComputeCoordActivations(pers.pers0, i - 1, 0)],
                      [i \in 1..NumNodes |-> GraphOf(nverts, i - 1) = GraphOf(nverts, v)]))

AggSlices == IF variant = "topolayer" /\ Len(fwd_edge_slices) = 1
             THEN fwd_edge_slices \o <<0>> ELSE fwd_edge_slices
EdgeRowsOf(g) ==
    {e \in 1..Len(batch_edges) : GraphOf(nverts, batch_edges[e][1]) = g}

\* C9: for every graph of the batch and every channel the persistence
\* output has as many dim0 pairs as the graph has vertices and as many dim1
\* pairs as it has edges, aligned with the vertices and with the edge-slice
\* ranges that aggregation uses.
C9_PairCountsAlign ==
    pers.ok =>
        /\ pers.ngraphs = Len(nverts)
        /\ Len(AggSlices) = Len(nverts) + 1
        /\ \A c \in 1..NumFiltrations :
               /\ DOMAIN pers.pers0[c] = 0..(NumNodes - 1)
               /\ Len(pers.pers1[c]) = Len(batch_edges)
        /\ \A g \in 1..Len(nverts) :
               /\ engine_in.vertex_slices[g + 1] - engine_in.vertex_slices[g] = nverts[g]
               /\ {e \in 1..Len(batch_edges) :
                      engine_in.edge_slices[g] < e /\ e <= engine_in.edge_slices[g + 1]}
                  = EdgeRowsOf(g)
               /\ {e \in 1..Len(batch_edges) : AggSlices[g] < e /\ e <= AggSlices[g + 1]}
                  = EdgeRowsOf(g)

RECURSIVE Closure(_, _)
Closure(S, es) ==
    LET n == S \cup {w \in 0..(NumNodes - 1) :
                        \E p \in es : (p[1] \in S /\ w = p[2]) \/ (p[2] \in S /\ w = p[1])}
    IN  IF n = S THEN S ELSE Closure(n, es)

VerticesOf(g) == {v \in 0..(NumNodes - 1) : GraphOf(nverts, v) = g}
Connected(g) ==
    \A v \in VerticesOf(g) :
        Closure({v}, {in_edges[i] : i \in 1..Len(in_edges)}) = VerticesOf(g)
UndirectedEdgesOf(g) ==
    {p \in VerticesOf(g) \X VerticesOf(g) :
        p[1] < p[2] /\ \E i \in 1..Len(in_edges) : in_edges[i] = p}
\* the edges of graph g processed before row e in channel c
Before(c, e) ==
    {batch_edges[k] : k \in {k \in 1..Len(batch_edges) :
        \/ filtered_e[c][k] < filtered_e[c][e]
        \/ (filtered_e[c][k] = filtered_e[c][e] /\ k < e)}}

\* C10: for a connected graph with V vertices and E undirected edges given
\* in both directions, the engine sees E canonical edges and per channel
\* produces V dim0 pairs, V-1 of them from merges and one the survivor
\* (birth, birth), and E-V+1 dim1 cycle pairs, each on an edge whose
\* endpoints were already connected when it was processed.
C10_ConnectedGraphCounts ==
    (variant = "models" /\ Computed) =>
        \A g \in 1..Len(nverts) :
            Connected(g) =>
                /\ pers.ok
                /\ Cardinality(EdgeRowsOf(g)) = Cardinality(UndirectedEdgesOf(g))
                /\ \A e \in EdgeRowsOf(g) : batch_edges[e] \in UndirectedEdgesOf(g)
                /\ \A c \in 1..NumFiltrations :
                       /\ Cardinality(VerticesOf(g) \cap pers.dead[c]) = nverts[g] - 1
                       /\ \E s \in VerticesOf(g) :
                              /\ VerticesOf(g) \ pers.dead[c] = {s}
                              /\ pers.pers0[c][s] = <<filt[c][s], filt[c][s]>>
                       /\ Cardinality(EdgeRowsOf(g) \cap pers.cyc[c])
                              = Cardinality(UndirectedEdgesOf(g)) - nverts[g] + 1
                       /\ \A e \in EdgeRowsOf(g) \cap pers.cyc[c] :
                              batch_edges[e][2] \in Closure({batch_edges[e][1]}, Before(c, e))

\* the edge-slice offsets of the edge list compute_persistence reads, as the
\* graphs' vertex ranges delimit them
TrueEdgeSlices ==
    <<0>> \o Cumsum([g \in 1..Len(nverts) |-> Cardinality(EdgeRowsOf(g))])
Finished == pc \in {"done", "error"}
Edgeless(g) == in_slices[g + 1] = in_slices[g]

\* C11: a graph with V vertices and no edges, alone or anywhere in a batch,
\* is not an error: the pass completes, each of its V dim0 pairs is (own
\* filtration, own filtration), its aggregated dim1 vector is the zero
\* vector, and every other graph of the batch gets the pairs of its own
\* vertex and edge ranges.
C11_EdgelessGraphHandled ==
    (Finished /\ \E g \in 1..Len(nverts) : Edgeless(g)) =>
        /\ pc = "done"
        /\ \A g \in 1..Len(nverts), c \in 1..NumFiltrations :
               IF Edgeless(g)
               THEN \A v \in VerticesOf(g) : pers.pers0[c][v] = <<filt[c][v], filt[c][v]>>
               ELSE LET own == GraphPersistence(filt[c], filtered_e[c], batch_edges,
                                                VertexSlices(nverts)[g],
                                                VertexSlices(nverts)[g + 1],
                                                TrueEdgeSlices[g], TrueEdgeSlices[g + 1])
                    IN  /\ \A v \in VerticesOf(g) : pers.pers0[c][v] = own.p0[v]
                        /\ \A e \in EdgeRowsOf(g) : pers.pers1[c][e] = own.p1[e]
        /\ dim1 =>
               /\ graph_activations1.some
               /\ Len(graph_activations1.rows) = Len(nverts)
               /\ \A g \in 1..Len(nverts) :
                      Edgeless(g) => graph_activations1.rows[g] = ZeroVec

\* C12: in residual+normalize mode the output embedding is x + BN(W * dim0
\* features) when swap_bn_order is off and x + relu(BN(W * dim0 features))
\* when it is on, row by row, and its width is the width of x whatever
\* features_out was requested.
C12_ResidualFusion ==
    (cfg.residual_and_bn /\ pc = "done") =>
        /\ out_activations.some
        /\ out_activations.width = cfg.features_in
        /\ DOMAIN out_activations.rows = 0..(NumNodes - 1)
        /\ \A v \in 0..(NumNodes - 1) :
               out_activations.rows[v] =
                   [x |-> x[v], relu |-> cfg.swap_bn_order,
                    bn |-> [lin |-> "out", arg |-> coord_activations[v]],
                    plus |-> <<>>]

C12_Witness ==
    /\ cfg.residual_and_bn /\ pc = "done" /\ variant = "models"
    /\ cfg.swap_bn_order /\ cfg.features_out # cfg.features_in
    /\ NumNodes > 1 /\ batch_edges # <<>>
    /\ out_activations.rows[0] # out_activations.rows[1]

\* forward got as far as the fusion: the activations of both dimensions exist
FusionReached ==
    /\ Finished
    /\ coord_activations # <<>>
    /\ dim1 => (graph_activations1.some \/ pc = "done")

\* what collapse_dim1 returned in this pass
Collapsed ==
    IF variant = "models" THEN CollapseDim1Models(Coord1, Mask1, fwd_edge_slices)
    ELSE CollapseDim1(Coord1, Mask1, fwd_edge_slices)

\* C13: with dim1 and dist_dim1 set, in either fusion mode, every node's
\* output embedding has the projected aggregated dim1 vector of the node's
\* graph added and forward returns no dim1 embedding; with dim1 set and
\* dist_dim1 not set, forward returns the aggregated dim1 vectors unchanged.
C13_DistinctDim1Head ==
    (dim1 /\ FusionReached) =>
        IF cfg.dist_dim1
        THEN /\ pc = "done"
             /\ ~graph_activations1.some
             /\ \A v \in 0..(NumNodes - 1) :
                    out_activations.rows[v].plus =
                        <<[lin |-> "out1", arg |-> Collapsed.rows[GraphOf(nverts, v)]]>>
        ELSE /\ pc = "done"
             /\ graph_activations1 = [some |-> TRUE, rows |-> Collapsed.rows]

\* C16: with self.fake set the engine is never invoked and the pass
\* completes without an error, also with dim1; with self.fake not set the
\* substitute is never invoked and the pairs come from the engine.
C16_FakeModeSplit ==
    Finished =>
        IF cfg.fake
        THEN ~engine_in.called /\ pc = "done"
        ELSE ~fake_in.called /\ (pers.ok => engine_in.called)

\* the width of the tensor forward feeds to self.out
FedToOut ==
    IF cfg.residual_and_bn THEN Len(coord_activations[0])
    ELSE cfg.features_in + Len(coord_activations[0])

\* C20: for every configuration the input width declared at construction
\* for a projection is the width of the tensor forward feeds to it: self.out
\* gets the dim0 features (residual) or the embedding concatenated with
\* them (concat), and the dim1 head gets the aggregated dim1 features.
C20_ProjectionWidths ==
    FusionReached =>
        /\ InOutDim = FedToOut
        /\ (dim1 /\ cfg.dist_dim1) =>
               /\ HasOut1
               /\ Out1InDim = Len(Collapsed.rows[1])

\* C14: whenever some endpoint of an edge compute_persistence reads is not a
\* vertex index in 0..N-1, negative values included, computing the edge
\* filtration fails with an error and no persistence or embedding output is
\* produced.
C14_OutOfRangeEndpointFails ==
    (Computed /\ ~AllEndpointsValid(batch_edges, NumNodes)) =>
        /\ pc = "error"
        /\ filtered_e = <<>>
        /\ ~engine_in.called /\ ~fake_in.called
        /\ ~pers.ok
        /\ ~out_activations.some

NonMonotonicOrOutOfRange(offsets, total) ==
    ~Monotonic(offsets) \/ ~InRange(offsets, total)

\* some offsets of the pass are malformed: those handed to the engine or
\* the substitute, or those collapse_dim1 iterates over
MalformedOffsets ==
    \/ /\ engine_in.called
       /\ \/ NonMonotonicOrOutOfRange(engine_in.vertex_slices, NumNodes)
          \/ NonMonotonicOrOutOfRange(engine_in.edge_slices, Len(batch_edges))
    \/ /\ fake_in.called
       /\ \/ NonMonotonicOrOutOfRange(fake_in.vertex_slices, NumNodes)
          \/ NonMonotonicOrOutOfRange(fake_in.edge_slices, Len(batch_edges))
    \/ dim1 /\ NonMonotonicOrOutOfRange(AggSlices, Len(batch_edges))

\* C15: malformed batch offsets (non-monotonic or out of the range of the
\* flat arrays) are a fatal error for the whole batch before any computation
\* starts: no filtration, persistence or aggregation step has run and no
\* partial result is returned.
C15_MalformedOffsetsFatal ==
    (Computed /\ MalformedOffsets) =>
        /\ pc = "error"
        /\ filt = <<>> /\ filtered_e = <<>>
        /\ ~pers.ok
        /\ coord_activations = <<>>
        /\ ~graph_activations1.some
        /\ ~out_activations.some

\* the vertices and the edge rows of graph g as the engine's offsets give them
EngineVerts(g) == engine_in.vertex_slices[g]..(engine_in.vertex_slices[g + 1] - 1)
EngineRows(g) == (engine_in.edge_slices[g] + 1)..engine_in.edge_slices[g + 1]
\* the filtration value of the last edge of graph g in ascending order
LastEdgeValue(c, g) ==
    CHOOSE m \in {filtered_e[c][e] : e \in EngineRows(g)} :
        \A e \in EngineRows(g) : filtered_e[c][e] <= m

\* C17: every pair the engine produces for a graph and channel has birth <=
\* death; the dim0 pair of a component that died in a merge is (own
\* filtration, filtration value of a merging edge), one per merging edge;
\* the pair of a vertex that never died is (birth, birth); a dim1 cycle pair
\* is (own edge's filtration value, filtration value of the graph's last
\* edge in ascending order), every other dim1 pair is the zero pair.
C17_PairsWellFormed ==
    (engine_in.called /\ pers.ok) =>
        \A c \in 1..NumFiltrations, g \in 1..pers.ngraphs :
            /\ \A v \in EngineVerts(g) :
                   /\ pers.pers0[c][v][1] <= pers.pers0[c][v][2]
                   /\ pers.pers0[c][v][1] = filt[c][v]
                   /\ IF v \in pers.dead[c]
                      THEN \E e \in EngineRows(g) \ pers.cyc[c] :
                               pers.pers0[c][v][2] = filtered_e[c][e]
                      ELSE pers.pers0[c][v][2] = pers.pers0[c][v][1]
            /\ Cardinality(EngineVerts(g) \cap pers.dead[c])
                   = Cardinality(EngineRows(g) \ pers.cyc[c])
            /\ \A e \in EngineRows(g) :
                   /\ pers.pers1[c][e][1] <= pers.pers1[c][e][2]
                   /\ pers.pers1[c][e] = IF e \in pers.cyc[c]
                                         THEN <<filtered_e[c][e], LastEdgeValue(c, g)>>
                                         ELSE ZeroPair

C17_Witness ==
    /\ engine_in.called /\ pers.ok /\ pers.ngraphs >= 1
    /\ \E v \in EngineVerts(1) :
           v \in pers.dead[1] /\ pers.pers0[1][v][1] < pers.pers0[1][v][2]
    /\ \E e \in EngineRows(1) :
           e \in pers.cyc[1] /\ pers.pers1[1][e][1] < pers.pers1[1][e][2]

\* ---------------------------------------------------------------- C18
\* the index ranges two tasks write
WriteRange0(t) == DOMAIN TaskOutput(t).p0
WriteRange1(t) == DOMAIN TaskOutput(t).p1

\* two workers are inside tasks that write a common index of a buffer
RacingWorkers ==
    \E w1, w2 \in Workers :
        /\ w1 # w2 /\ mt.running[w1] # 0 /\ mt.running[w2] # 0
        /\ TaskChannel(mt.running[w1]) = TaskChannel(mt.running[w2])
        /\ \/ WriteRange0(mt.running[w1]) \cap WriteRange0(mt.running[w2]) # {}
           \/ WriteRange1(mt.running[w1]) \cap WriteRange1(mt.running[w2]) # {}

SequentialRun ==
    ComputePersistenceHomologyBatched(filt, filtered_e, batch_edges,
                                      engine_in.vertex_slices, engine_in.edge_slices,
                                      NumNodes, mt.junk)

\* C18: with the engine's tasks run by independent workers in any
\* interleaving, no index of the dim0 or dim1 buffer is written by two
\* different tasks (so by no two workers), no two workers are ever inside
\* tasks with a common index, and once every task is done the buffers equal
\* those of the sequential run over the same graphs and channels.
C18_WorkersWriteDisjointRanges ==
    mt.active =>
        /\ ~(pc = "engine" /\ RacingWorkers)
        /\ \A c \in 1..NumFiltrations :
              /\ \A v \in DOMAIN mt.writers0[c] : Cardinality(mt.writers0[c][v]) <= 1
              /\ \A e \in DOMAIN mt.writers1[c] : Cardinality(mt.writers1[c][e]) <= 1
        /\ AllTasksDone =>
              /\ mt.buf0 = SequentialRun.pers0
              /\ mt.buf1 = SequentialRun.pers1
        /\ pc \in {"aggregate", "done"} => pers = SequentialRun

\* two graphs with edges, all their tasks done by the workers
C18_Witness ==
    /\ mt.active /\ pc = "engine" /\ AllTasksDone
    /\ Len(engine_in.vertex_slices) - 1 >= 2
    /\ \A g \in 1..(Len(engine_in.vertex_slices) - 1) :
          engine_in.edge_slices[g] < engine_in.edge_slices[g + 1]
    /\ \A c \in 1..NumFiltrations :
          /\ \A v \in DOMAIN mt.writers0[c] : mt.writers0[c][v] # {}
          /\ \A e \in DOMAIN mt.writers1[c] : mt.writers1[c][e] # {}

\* ---------------------------------------------------------------- C19
\* the slots of channel c in a row of the dim1 activations
ChannelSlots(c) ==
    ((c - 1) * TotalNumCoordFuns(1) + 1)..(c * TotalNumCoordFuns(1))

\* the rows of segment g of the slices forward collapses over
SegmentRows(g) ==
    {e \in 1..Len(batch_edges) :
        fwd_edge_slices[g] < e /\ e <= fwd_edge_slices[g + 1]}

RECURSIVE BagSum(_, _)
BagSum(S, f) ==
    IF S = {} THEN EmptyBag
    ELSE LET e == CHOOSE z \in S : TRUE IN f[e] (+) BagSum(S \ {e}, f)

\* slot i of the sum of the dim1 coordinate features of the rows in S
SlotSum(S, i) == BagSum(S, [e \in S |-> Coord1[e][i]])

\* C19: in every channel, the channel's part of a graph's aggregated dim1
\* feature is the sum of the coordinate features of exactly those entries
\* of the graph that are cycle pairs in that channel; an entry that is the
\* all-zero non-cycle pair in that channel adds nothing to it.
C19_MaskSelectsCycles ==
    (pc = "done" /\ dim1 /\ variant = "models" /\ graph_activations1.some) =>
        \A g \in 1..Len(graph_activations1.rows) :
            \A c \in 1..NumFiltrations :
                \A i \in ChannelSlots(c) :
                    graph_activations1.rows[g][i] =
                        SlotSum(SegmentRows(g) \cap pers.cyc[c], i)

\* ---------------------------------------------------------------- C21
\* the count the configuration gives family f in dimension d
CountOf(d, f) ==
    LET mods == CoordFunModules(d)
    IN  mods[CHOOSE i \in 1..Len(mods) : mods[i][1] = f][2]

\* the features of one pair in the fixed family order
FixedOrderFeatures(pair, d) ==
    ConcatAll([i \in 1..Len(Families) |->
                  [k \in 1..CountOf(d, Families[i]) |->
                      SetToBag({<<Families[i], k, d, pair>>})]])

\* the row of point r: channel by channel, each in the fixed family order
FixedOrderRow(persistences, r, d) ==
    ConcatAll([c \in 1..NumFiltrations |-> FixedOrderFeatures(persistences[c][r], d)])

SumOfCounts(d) ==
    SumSeq([i \in 1..Len(Families) |-> CountOf(d, Families[i])])

\* C21: the feature row of every vertex (dim0) and, with dim1, of every edge
\* has width num_filtrations times the sum of the per-family counts and
\* holds, channel by channel, the outputs of Triangle, Gaussian, Line,
\* RationalHat in this order, however the counts were supplied.
C21_FixedFamilyOrder ==
    pc = "done" =>
        /\ \A v \in DOMAIN coord_activations :
              /\ Len(coord_activations[v]) = NumFiltrations * SumOfCounts(0)
              /\ coord_activations[v] = FixedOrderRow(pers.pers0, v, 0)
        /\ dim1 =>
              \A e \in 1..Len(batch_edges) :
                  /\ Len(Coord1[e]) = NumFiltrations * SumOfCounts(1)
                  /\ Coord1[e] = FixedOrderRow(pers.pers1, e, 1)

====
